---- MODULE Spec2Model ----
(***************************************************************************)
(* The profile / user-admin controller (getProfile, updateProfile,         *)
(* changePassword, deactivateMe, findUsersByEmails, getAllUsers,           *)
(* updateUserById, deleteUserById, getUserById) over the User collection.  *)
(*                                                                         *)
(* A request body is a function from the keys it holds to their values,    *)
(* so "key in DOMAIN body" is Object.keys(req.body).includes(key).         *)
(* A handler is an operator from (collection, req.user, params, body) to   *)
(* the collection it leaves and the response it sends; an action applies   *)
(* it to the state and records the request and the response.               *)
(* deleteUserById and changePassword await more than once: each is one     *)
(* operator and one action per stretch between two awaits, and a request   *)
(* between two of them is pending, other requests free to run meanwhile.   *)
(***************************************************************************)
EXTENDS Integers, Sequences, FiniteSets, TLC

\* valid dates of a request are the timestamps 1..MaxDate
MaxDate == 2
\* longest skills list of a request body
MaxSkills == 2
\* longest emails list of a request body
MaxEmails == 2
\* most deleteUserById requests waiting at their await at once
MaxPending == 1
\* most changePassword requests waiting at an await at once
MaxChanging == 2

VARIABLES
    users,     \* the User collection: ObjectId -> document, or Absent
    auth,      \* req.user of the requests that passed authentication and whose handler has not run yet
    pending,   \* the requests waiting at an await: deleteUserById after its findById,
               \* changePassword after its findById and after its correctPassword
    req,       \* the request handled last
    res        \* the response sent last

vars == <<users, auth, pending, req, res>>

----------------------------------------------------------------------------
\* Values

\* the ObjectIds of the collection, in collection order
IdOrder == <<"u1", "u2">>
Ids == {IdOrder[i] : i \in 1..Len(IdOrder)}

Absent == [absent |-> TRUE]
NoUser == [anonymous |-> TRUE]
NoData == [kind |-> "none"]
NoToken == [signed |-> FALSE]
NoBody == << >>

ADMIN == "adminSystem"
MEMBER == "userSystem"
\* the values the schema's role enum allows
RoleEnum == {ADMIN, MEMBER}

\* the values of the Skill collection, and two values it does not hold
SkillValues == {"js"}
SkillInputs == {"js", "xx", "yy"}

\* an email is the sequence of its UTF-16 code units, which is what the
\* syntax check reads
At == 64
Dot == 46
\* a@x.o, b@x.o
E1 == <<97, At, 120, Dot, 111>>
E2 == <<98, At, 120, Dot, 111>>
\* e-acute@x.o: well formed, the email of no user
E3 == <<233, At, 120, Dot, 111>>
\* a@x
BadEmail == <<97, At, 120>>
\* the second user's email with a tab, and with an em space, before the @
TabEmail == <<98, 9, At, 120, Dot, 111>>
EmSpaceEmail == <<98, 8195, At, 120, Dot, 111>>
EmailInputs == {E1, E2, E3, BadEmail, TabEmail, EmSpaceEmail}

\* req.params.id is a string: the hex digits it spells, in lower or upper
\* case, or a string that is no ObjectId at all
IdParam(hex, upper) == [hex |-> hex, upper |-> upper, valid |-> TRUE]
BadId == [hex |-> "zz", upper |-> FALSE, valid |-> FALSE]
NoParam == [hex |-> "", upper |-> FALSE, valid |-> FALSE]

\* mongoose.Types.ObjectId.isValid(id)
IsValid(id) == id.valid
\* req.user._id.toString(): the lower-case hex string
toString(oid) == IdParam(oid, FALSE)
\* the cast of a string to an ObjectId that findById and its kin apply:
\* hex digits are read in either case
CastObjectId(id) == id.hex

\* new Date(v), NaN for a value that parses to no date
NaN == 0 - 1
DateInputs == {[parses |-> FALSE, time |-> 0]} \cup {[parses |-> TRUE, time |-> t] : t \in 1..MaxDate}
NewDate(v) == IF v.parses THEN v.time ELSE NaN
isNaN(d) == d = NaN
\* the date of a document whose expectedWorkDuration was set to null
NoDate == 0

\* !!v of a string
Truthy(v) == v # ""
\* req.body[k], read only where k is a key
Has(body, k) == k \in DOMAIN body
TruthyField(body, k) == Has(body, k) /\ Truthy(body[k])
\* if (filtered.skills), if (filtered.expectedWorkDuration), !emails: the
\* value of a key that is no string carries its own truthiness
TruthyValue(body, k) == Has(body, k) /\ body[k].truthy

\* the pre-save hook stores a hash; correctPassword compares a candidate with it
Hash(p) == <<"hash", p>>
correctPassword(candidate, stored) == stored = Hash(candidate)

----------------------------------------------------------------------------
\* The collection and the responses

FindById(db, oid) == IF oid \in Ids THEN db[oid] ELSE Absent

\* the schema's casts of the fields an update sets: a skills value that is
\* no array is wrapped into one, a null expectedWorkDuration leaves no dates
CastField(f, v) ==
    CASE f = "skills" -> v.items
      [] f = "expectedWorkDuration" ->
            IF v.truthy
            THEN [startDate |-> NewDate(v.startDate), endDate |-> NewDate(v.endDate)]
            ELSE [startDate |-> NoDate, endDate |-> NoDate]
      [] OTHER -> v

\* the document after $set of the update's keys
ApplyUpdate(doc, update) ==
    [f \in DOMAIN doc |-> IF f \in DOMAIN update THEN CastField(f, update[f]) ELSE doc[f]]

\* findByIdAndUpdate(oid, update): the collection afterwards
FindByIdAndUpdate(db, oid, update) ==
    IF FindById(db, oid) = Absent THEN db
    ELSE [db EXCEPT ![oid] = ApplyUpdate(db[oid], update)]

\* findByIdAndDelete(oid): the collection afterwards
FindByIdAndDelete(db, oid) ==
    IF oid \in Ids THEN [db EXCEPT ![oid] = Absent] ELSE db

\* runValidators: the update validators of the keys an admin update may set
UpdateValidates(update) ==
    Has(update, "role") => update["role"] \in RoleEnum

\* next(new AppError(message, statusCode))
AppError(message, statusCode) ==
    [status |-> statusCode, message |-> message, data |-> NoData, token |-> NoToken]
\* res.status(code).json({status, data})
Json(statusCode, data) ==
    [status |-> statusCode, message |-> << >>, data |-> data, token |-> NoToken]
\* next(err) of a validation error thrown by the ORM
ValidationError == AppError(<<"ValidationError">>, 400)
\* next(err) of the error save() throws for a document the collection lost
DocumentNotFoundError == AppError(<<"DocumentNotFoundError">>, 500)

Outcome(db, response) == [db |-> db, res |-> response]

----------------------------------------------------------------------------
\* getProfile

\* the stored fields the profile responses relay
ProfileView(oid, doc) ==
    [id |-> oid, fullname |-> doc.fullname, email |-> doc.email, role |-> doc.role,
     skills |-> doc.skills, expectedWorkDuration |-> doc.expectedWorkDuration]

getProfile(db, user) ==
    LET doc == FindById(db, user._id) IN
    IF doc = Absent THEN Outcome(db, AppError(<<"User not found.">>, 404))
    ELSE Outcome(db, Json(200, [kind |-> "user", user |-> ProfileView(user._id, doc)]))

----------------------------------------------------------------------------
\* updateProfile

allowed == {"fullname", "username", "email", "avatar", "skills", "about",
            "experience", "yearOfExperience", "availability", "expectedWorkDuration"}

\* the check with the role forgotten
RejectsBodyPasswordOnly(body) == TruthyField(body, "password")

\* if (req.body.password || req.body.role)
RejectsBody(body) == TruthyField(body, "password") \/ TruthyField(body, "role")

\* the keys of the body the allow-list keeps
Filter(body, keys) == [k \in (DOMAIN body \cap keys) |-> body[k]]

\* for (const val of filtered.skills): the index of the first value that is
\* the value of no Skill document, 0 when there is none
RECURSIVE SkillLoop(_, _)
SkillLoop(items, i) ==
    IF i > Len(items) THEN 0
    ELSE IF items[i] \notin SkillValues THEN i
    ELSE SkillLoop(items, i + 1)

\* the loop leaving after its first value
FirstSkillOnly(items) == IF Len(items) > 0 /\ items[1] \notin SkillValues THEN 1 ELSE 0

FirstUnknownSkill(items) == SkillLoop(items, 1)

\* the comparison turned round
StartBeforeEnd(s, e) == s < e

\* s > e of the two dates of expectedWorkDuration
StartAfterEnd(s, e) == s > e

updateProfile(db, user, body) ==
    IF RejectsBody(body) THEN
        Outcome(db, AppError(<<"This route is not for password or role updates.">>, 400))
    ELSE
    LET filtered == Filter(body, allowed) IN
    IF TruthyValue(filtered, "skills") /\ ~filtered["skills"].isArray THEN
        Outcome(db, AppError(<<"Skills must be an array of skill values.">>, 400))
    ELSE IF TruthyValue(filtered, "skills")
            /\ FirstUnknownSkill(filtered["skills"].items) # 0 THEN
        LET items == filtered["skills"].items IN
        Outcome(db, AppError(<<"Skill not found: ", items[FirstUnknownSkill(items)]>>, 404))
    ELSE IF TruthyValue(filtered, "expectedWorkDuration")
            /\ (\/ isNaN(NewDate(filtered["expectedWorkDuration"].startDate))
                \/ isNaN(NewDate(filtered["expectedWorkDuration"].endDate))) THEN
        Outcome(db, AppError(<<"Invalid start or end date.">>, 400))
    ELSE IF TruthyValue(filtered, "expectedWorkDuration")
            /\ StartAfterEnd(NewDate(filtered["expectedWorkDuration"].startDate),
                             NewDate(filtered["expectedWorkDuration"].endDate)) THEN
        Outcome(db, AppError(<<"Start date must be before or equal to end date.">>, 400))
    ELSE IF ~UpdateValidates(filtered) THEN Outcome(db, ValidationError)
    ELSE
    LET after == FindByIdAndUpdate(db, user._id, filtered) IN
    IF FindById(after, user._id) = Absent THEN
        Outcome(after, AppError(<<"User not found.">>, 404))
    ELSE
        Outcome(after, Json(200, [kind |-> "user",
                                  user |-> ProfileView(user._id, after[user._id])]))

----------------------------------------------------------------------------
\* changePassword

\* !currentPassword || !newPassword || !passwordConfirm
MissingField(body) ==
    \/ ~TruthyField(body, "currentPassword")
    \/ ~TruthyField(body, "newPassword")
    \/ ~TruthyField(body, "passwordConfirm")

\* newPassword !== passwordConfirm
ConfirmMismatch(body) == body["newPassword"] # body["passwordConfirm"]

\* jsonwebtoken.sign({ _id: user._id }, ...)
SignToken(oid) == [signed |-> TRUE, _id |-> oid]

\* changePassword up to its findById: the error it ends with, or proceed
\* with the document read
changePasswordFind(db, user, body) ==
    IF MissingField(body) THEN
        [proceed |-> FALSE, res |-> AppError(<<"All three fields are required.">>, 400)]
    ELSE IF FindById(db, user._id) = Absent THEN
        [proceed |-> FALSE, res |-> AppError(<<"User not found.">>, 404)]
    ELSE [proceed |-> TRUE, res |-> AppError(<< >>, 0)]

\* changePassword from its correctPassword to its save: the two checks, on
\* the password of the document read
changePasswordCheck(password, body) ==
    IF ~correctPassword(body["currentPassword"], password) THEN
        [proceed |-> FALSE, res |-> AppError(<<"Your current password is incorrect.">>, 401)]
    ELSE IF ConfirmMismatch(body) THEN
        [proceed |-> FALSE, res |-> AppError(<<"New passwords do not match.">>, 400)]
    ELSE [proceed |-> TRUE, res |-> AppError(<< >>, 0)]

\* changePassword from its save on: save() writes the two paths it modified
\* to the stored document, and throws when the document is stored no more
changePasswordSave(db, user, body, now) ==
    IF FindById(db, user._id) = Absent THEN Outcome(db, DocumentNotFoundError)
    ELSE
        Outcome([db EXCEPT ![user._id] =
                    [db[user._id] EXCEPT !.password = Hash(body["newPassword"]),
                                         !.passwordChangedAt = now]],
                [status |-> 200, message |-> << >>, data |-> NoData,
                 token |-> SignToken(user._id)])

----------------------------------------------------------------------------
\* deactivateMe

deactivateMe(db, user, now) ==
    Outcome(FindByIdAndUpdate(db, user._id, [isDeleted |-> TRUE, deletedAt |-> now]),
            Json(204, NoData))

----------------------------------------------------------------------------
\* findUsersByEmails

\* \s: tab, line feed, vertical tab, form feed, carriage return, space,
\* no-break space, the other space separators, the line and paragraph
\* separators and the byte order mark
WhiteSpace ==
    {9, 10, 11, 12, 13, 32, 160, 5760} \cup (8192..8202)
        \cup {8232, 8233, 8239, 8287, 12288, 65279}

\* [^\s@]
NotSpaceOrAt(c) == c \notin WhiteSpace /\ c # At

\* /^[^\s@]+@[^\s@]+\.[^\s@]+$/ : a run, an @, a run, a dot, a run
emailRegexTest(e) ==
    \E i \in 1..Len(e), j \in 1..Len(e) :
        /\ 1 < i /\ i + 1 < j /\ j < Len(e)
        /\ e[i] = At /\ e[j] = Dot
        /\ \A k \in (1..Len(e)) \ {i} : NotSpaceOrAt(e[k])

\* emails.includes(v)
Includes(list, v) == \E i \in 1..Len(list) : list[i] = v

\* the caller's own email never looked for
SelfInviteIgnored(emails, user) == FALSE

\* const selfInvite = emails.includes(currentUserEmail)
SelfInvite(emails, user) == Includes(emails, user.email)

\* User.find({ email: { $in: emails }, isDeleted: false }), in collection order
RECURSIVE FindByEmails(_, _, _)
FindByEmails(db, emails, i) ==
    IF i > Len(IdOrder) THEN << >>
    ELSE LET doc == db[IdOrder[i]]
             rest == FindByEmails(db, emails, i + 1) IN
         IF doc # Absent /\ ~doc.isDeleted /\ Includes(emails, doc.email)
         THEN <<[userId |-> IdOrder[i], email |-> doc.email, fullname |-> doc.fullname]>> \o rest
         ELSE rest

findUsersByEmails(db, user, body) ==
    IF \/ ~TruthyValue(body, "emails")
       \/ ~body["emails"].isArray
       \/ Len(body["emails"].items) = 0 THEN
        Outcome(db, AppError(<<"Email list is required and must be an array.">>, 400))
    ELSE
    LET emails == body["emails"].items
        invalidEmails == SelectSeq(emails, LAMBDA e : ~emailRegexTest(e)) IN
    IF Len(invalidEmails) > 0 THEN
        Outcome(db, AppError(<<"Email is invalid: ", invalidEmails>>, 400))
    ELSE IF SelfInvite(emails, user) THEN
        Outcome(db, AppError(<<"You cannot invite yourself.">>, 400))
    ELSE
    LET found == FindByEmails(db, emails, 1)
        foundEmails == [i \in 1..Len(found) |-> found[i].email]
        notFoundEmails == SelectSeq(emails, LAMBDA e : ~Includes(foundEmails, e)) IN
    Outcome(db, Json(200, [kind |-> "byEmails", foundUsers |-> found,
                           notFoundEmails |-> notFoundEmails]))

----------------------------------------------------------------------------
\* getAllUsers, updateUserById, deleteUserById, getUserById

\* the gate left open
GateOpen(user) == FALSE

\* if (req.user.role !== 'adminSystem')
NotAdmin(user) == user.role # ADMIN

\* User.find({ isDeleted: false }), in collection order, as the response relays it
RECURSIVE FindActive(_, _)
FindActive(db, i) ==
    IF i > Len(IdOrder) THEN << >>
    ELSE LET doc == db[IdOrder[i]]
             rest == FindActive(db, i + 1) IN
         IF doc # Absent /\ ~doc.isDeleted
         THEN <<[id |-> IdOrder[i], fullname |-> doc.fullname, email |-> doc.email,
                 role |-> doc.role, skills |-> doc.skills]>> \o rest
         ELSE rest

getAllUsers(db, user) ==
    IF NotAdmin(user) THEN Outcome(db, AppError(<<"Admin access required.">>, 403))
    ELSE Outcome(db, Json(200, [kind |-> "users", users |-> FindActive(db, 1)]))

allowedFields == {"role", "isDeleted"}

\* id === req.user._id.toString() && req.body.role && req.body.role !== 'adminSystem'
ChangesOwnRole(user, id, body) ==
    /\ id = toString(user._id)
    /\ TruthyField(body, "role")
    /\ body["role"] # ADMIN

AdminView(oid, doc) ==
    [id |-> oid, fullname |-> doc.fullname, email |-> doc.email, role |-> doc.role,
     isDeleted |-> doc.isDeleted, skills |-> doc.skills]

updateUserById(db, user, id, body) ==
    IF NotAdmin(user) THEN Outcome(db, AppError(<<"Admin access required.">>, 403))
    ELSE IF ~IsValid(id) THEN Outcome(db, AppError(<<"Invalid user ID format.">>, 400))
    ELSE IF ChangesOwnRole(user, id, body) THEN
        Outcome(db, AppError(<<"You cannot change your own role.">>, 400))
    ELSE
    LET filteredBody == Filter(body, allowedFields)
        oid == CastObjectId(id) IN
    IF ~UpdateValidates(filteredBody) THEN Outcome(db, ValidationError)
    ELSE
    LET after == FindByIdAndUpdate(db, oid, filteredBody) IN
    IF FindById(after, oid) = Absent THEN Outcome(after, AppError(<<"User not found.">>, 404))
    ELSE Outcome(after, Json(200, [kind |-> "user", user |-> AdminView(oid, after[oid])]))

\* if (user.role === 'adminSystem') of the document deleteUserById found
IsAdminDoc(doc) == doc.role = ADMIN

\* deleteUserById up to its findByIdAndDelete: the error it ends with, or
\* proceed when every check passed
deleteUserByIdChecks(db, user, id) ==
    IF NotAdmin(user) THEN
        [proceed |-> FALSE, res |-> AppError(<<"Admin access required.">>, 403)]
    ELSE IF ~IsValid(id) THEN
        [proceed |-> FALSE, res |-> AppError(<<"Invalid user ID format.">>, 400)]
    ELSE IF FindById(db, CastObjectId(id)) = Absent THEN
        [proceed |-> FALSE, res |-> AppError(<<"User not found.">>, 404)]
    ELSE IF IsAdminDoc(FindById(db, CastObjectId(id))) THEN
        [proceed |-> FALSE, res |-> AppError(<<"Cannot delete another admin user.">>, 400)]
    ELSE [proceed |-> TRUE, res |-> AppError(<< >>, 0)]

\* deleteUserById from its findByIdAndDelete on
deleteUserByIdRemove(db, id) ==
    Outcome(FindByIdAndDelete(db, CastObjectId(id)),
            [status |-> 200, message |-> <<"User deleted successfully.">>,
             data |-> NoData, token |-> NoToken])

getUserById(db, user, id) ==
    IF ~IsValid(id) THEN Outcome(db, AppError(<<"Invalid user ID.">>, 400))
    ELSE
    LET oid == CastObjectId(id)
        doc == FindById(db, oid) IN
    IF doc = Absent THEN Outcome(db, AppError(<<"User not found.">>, 404))
    ELSE Outcome(db, Json(200, [kind |-> "user", user |-> ProfileView(oid, doc)]))

----------------------------------------------------------------------------
\* Requests

\* req.user as the authentication of a request reads it from the collection
ReqUser(db, oid) == [_id |-> oid, role |-> db[oid].role, email |-> db[oid].email]

\* the callers whose req.user is read as their handler starts
Callers == {ReqUser(users, u) : u \in {v \in Ids : users[v] # Absent}}
\* the callers whose req.user was read earlier
Authenticated == {auth[u] : u \in {v \in Ids : auth[v] # NoUser}}

Request(op, user, id, body) == [op |-> op, user |-> user, id |-> id, body |-> body]

\* the handler's outcome applied: the collection written, the response sent
Handle(request, outcome) ==
    /\ users' = outcome.db
    /\ res' = outcome.res
    /\ req' = request
    /\ UNCHANGED <<auth, pending>>

\* the bodies of a request: one optional key each, merged
Optional(key, values) == {NoBody} \cup {[k \in {key} |-> v] : v \in values}

Lists(values, maxLen) ==
    UNION {[1..n -> values] : n \in 0..maxLen}
ArrayOf(values, maxLen) ==
    {[isArray |-> TRUE, truthy |-> TRUE, items |-> l] : l \in Lists(values, maxLen)}
\* a string that is not empty where an array is expected: no check lets it through
NotAnArray == [isArray |-> FALSE, truthy |-> TRUE, items |-> << >>]
\* the empty string where skills are expected, with the array the schema's
\* cast wraps it into
EmptyString == [isArray |-> FALSE, truthy |-> FALSE, items |-> <<"">>]
\* emails: null
Null == [isArray |-> FALSE, truthy |-> FALSE, items |-> << >>]

\* Date.now(): timestamps are only stored, never compared
Times == {"t1"}
Unset == "unset"
Passwords == {"p1", "p2"}

----------------------------------------------------------------------------
\* The bodies and parameters the requests are drawn from

Skills(items) == [isArray |-> TRUE, truthy |-> TRUE, items |-> items]
Duration(s, e) == [truthy |-> TRUE, startDate |-> s, endDate |-> e]
\* expectedWorkDuration: null
NullDuration == [truthy |-> FALSE]

DurationInputs ==
    {Duration(s, e) : s \in DateInputs, e \in DateInputs} \cup {NullDuration}

\* updateProfile: a disallowed key, missing, empty or set, beside an allow-listed one
DisallowedBodies ==
    {p @@ r @@ f :
        p \in Optional("password", {"", "p2"}),
        r \in Optional("role", {"", ADMIN}),
        f \in Optional("fullname", {"n2"})}

\* updateProfile: a skills value beside a name and a role
SkillsBodies ==
    {[fullname |-> "n2"] @@ k @@ r :
        k \in Optional("skills", ArrayOf(SkillInputs, MaxSkills) \cup {NotAnArray, EmptyString}),
        r \in Optional("role", {ADMIN})}

\* updateProfile: a duration beside a role and a skills list, known or unknown
DurationBodies ==
    {d @@ r @@ k :
        d \in Optional("expectedWorkDuration", DurationInputs),
        r \in Optional("role", {ADMIN}),
        k \in Optional("skills", {Skills(<<"js">>), Skills(<<"xx">>)})}

ProfileBodies == DisallowedBodies \cup SkillsBodies \cup DurationBodies

\* req.body of changePassword: the stored password kept
SamePassword == [currentPassword |-> "p1", newPassword |-> "p1", passwordConfirm |-> "p1"]

\* changePassword: each field missing or a password, and one field empty
PasswordBodies ==
    {c @@ n @@ k :
        c \in Optional("currentPassword", Passwords),
        n \in Optional("newPassword", Passwords),
        k \in Optional("passwordConfirm", Passwords)}
    \cup {[SamePassword EXCEPT ![f] = ""] :
             f \in {"currentPassword", "newPassword", "passwordConfirm"}}

\* findUsersByEmails: no list, no array, and the lists of emails
EmailBodies ==
    Optional("emails", ArrayOf(EmailInputs, MaxEmails) \cup {NotAnArray, Null})

\* updateUserById: a role of the enum or outside it
AdminBodies == {[role |-> ""], [role |-> ADMIN], [role |-> MEMBER]}

\* req.params.id: each document's id, and no ObjectId
SomeIdParams == {IdParam(h, FALSE) : h \in Ids} \cup {BadId}

----------------------------------------------------------------------------
\* The state after construction: an admin and a member

NewUser(role, email) ==
    [role |-> role, email |-> email, password |-> Hash("p1"), passwordChangedAt |-> Unset,
     isDeleted |-> FALSE, deletedAt |-> Unset, fullname |-> "n1", skills |-> << >>,
     expectedWorkDuration |-> [startDate |-> 1, endDate |-> 1]]

Init ==
    /\ users = [u \in Ids |-> IF u = IdOrder[1] THEN NewUser(ADMIN, E1) ELSE NewUser(MEMBER, E2)]
    /\ auth = [u \in Ids |-> NoUser]
    /\ pending = {}
    /\ req = Request("none", NoUser, NoParam, NoBody)
    /\ res = AppError(<< >>, 0)

----------------------------------------------------------------------------
\* One action per handler

GetProfile(user) ==
    Handle(Request("getProfile", user, NoParam, NoBody), getProfile(users, user))

UpdateProfile(user, body) ==
    Handle(Request("updateProfile", user, NoParam, body), updateProfile(users, user, body))

DeactivateMe(user, now) ==
    Handle(Request("deactivateMe", user, NoParam, NoBody), deactivateMe(users, user, now))

FindUsersByEmails(user, body) ==
    Handle(Request("findUsersByEmails", user, NoParam, body),
           findUsersByEmails(users, user, body))

GetAllUsers(user) ==
    Handle(Request("getAllUsers", user, NoParam, NoBody), getAllUsers(users, user))

UpdateUserById(user, id, body) ==
    Handle(Request("updateUserById", user, id, body), updateUserById(users, user, id, body))

GetUserById(user, id) ==
    Handle(Request("getUserById", user, id, NoBody), getUserById(users, user, id))

\* the authentication of a request of u, whose handler runs later
Authenticate(u) ==
    /\ users[u] # Absent
    /\ auth' = [auth EXCEPT ![u] = ReqUser(users, u)]
    /\ UNCHANGED <<users, pending, req, res>>

\* the pending requests of one operation
PendingOf(op) == {p \in pending : p.op = op}

\* requests are told apart, two with the same caller and body as well:
\* the first number no pending request of the operation bears
Slot(op) ==
    CHOOSE s \in 1..(Cardinality(PendingOf(op)) + 1) :
        /\ \A p \in PendingOf(op) : p.slot # s
        /\ \A t \in 1..(s - 1) : \E p \in PendingOf(op) : p.slot = t

\* deleteUserById up to its findById: the error sent, or the request left
\* pending with the role of the document read; the bound holds back only
\* a request that would be left pending
DeleteUserByIdFind(user, id) ==
    LET checks == deleteUserByIdChecks(users, user, id) IN
    /\ checks.proceed => Cardinality(PendingOf("deleteUserById")) < MaxPending
    /\ users' = users
    /\ pending' = IF checks.proceed
                  THEN pending \cup {[op |-> "deleteUserById", slot |-> Slot("deleteUserById"),
                                       user |-> user, id |-> id,
                                       role |-> FindById(users, CastObjectId(id)).role]}
                  ELSE pending
    /\ req' = IF checks.proceed THEN req ELSE Request("deleteUserById", user, id, NoBody)
    /\ res' = IF checks.proceed THEN res ELSE checks.res
    /\ auth' = auth

\* a pending deleteUserById from its findByIdAndDelete to its response
DeleteUserByIdRemove(p) ==
    LET outcome == deleteUserByIdRemove(users, p.id) IN
    /\ users' = outcome.db
    /\ res' = outcome.res
    /\ req' = Request("deleteUserById", p.user, p.id, NoBody)
    /\ pending' = pending \ {p}
    /\ auth' = auth

\* changePassword up to its findById: the error sent, or the request left
\* waiting for correctPassword with the password of the document read; the
\* bound holds back only a request that would be left waiting
ChangePasswordFind(user, body) ==
    LET found == changePasswordFind(users, user, body) IN
    /\ found.proceed => Cardinality(PendingOf("changePassword")) < MaxChanging
    /\ users' = users
    /\ pending' = IF found.proceed
                  THEN pending \cup {[op |-> "changePassword", slot |-> Slot("changePassword"),
                                       user |-> user, body |-> body, await |-> "correctPassword",
                                       password |-> FindById(users, user._id).password]}
                  ELSE pending
    /\ req' = IF found.proceed THEN req ELSE Request("changePassword", user, NoParam, body)
    /\ res' = IF found.proceed THEN res ELSE found.res
    /\ auth' = auth

\* a pending changePassword from its correctPassword to its save: the error
\* sent, or the request left waiting for save
ChangePasswordCheck(p) ==
    LET checks == changePasswordCheck(p.password, p.body) IN
    /\ p.await = "correctPassword"
    /\ users' = users
    /\ pending' = IF checks.proceed
                  THEN (pending \ {p}) \cup {[p EXCEPT !.await = "save"]}
                  ELSE pending \ {p}
    /\ req' = IF checks.proceed THEN req ELSE Request("changePassword", p.user, NoParam, p.body)
    /\ res' = IF checks.proceed THEN res ELSE checks.res
    /\ auth' = auth

\* a pending changePassword from its save to its response
ChangePasswordSave(p, now) ==
    LET outcome == changePasswordSave(users, p.user, p.body, now) IN
    /\ p.await = "save"
    /\ users' = outcome.db
    /\ res' = outcome.res
    /\ req' = Request("changePassword", p.user, NoParam, p.body)
    /\ pending' = pending \ {p}
    /\ auth' = auth

----------------------------------------------------------------------------
\* The nine operations, interleaved: req.user is read when a request is
\* authenticated and its handler runs later, other requests between the
\* two and at each of its awaits. The member changes its password, the
\* admin of the initial state deactivates itself, at most MaxPending
\* requests are suspended at an await: a request that would be one more
\* does not start, one answered before its first await always does

Next ==
    \/ \E u \in Ids : Authenticate(u)
    \/ \E user \in Authenticated : GetProfile(user)
    \/ \E user \in Authenticated, body \in {[role |-> ADMIN, fullname |-> "n2"], [role |-> ""]} :
          UpdateProfile(user, body)
    \/ \E user \in {a \in Authenticated : a._id = IdOrder[2]} :
          /\ changePasswordFind(users, user, SamePassword).proceed
                => Cardinality(pending) < MaxPending
          /\ ChangePasswordFind(user, SamePassword)
    \/ \E p \in PendingOf("changePassword") : ChangePasswordCheck(p)
    \/ \E p \in PendingOf("changePassword"), now \in Times : ChangePasswordSave(p, now)
    \/ \E user \in {a \in Authenticated : a._id = IdOrder[1]}, now \in Times :
          DeactivateMe(user, now)
    \/ \E user \in Authenticated : FindUsersByEmails(user, [emails |-> Skills(<<E2>>)])
    \/ \E user \in Authenticated : GetAllUsers(user)
    \/ \E user \in Authenticated, id \in {IdParam(h, FALSE) : h \in Ids}, body \in AdminBodies :
          UpdateUserById(user, id, body)
    \/ \E user \in Authenticated, id \in {IdParam(h, FALSE) : h \in Ids} :
          /\ deleteUserByIdChecks(users, user, id).proceed
                => Cardinality(pending) < MaxPending
          /\ DeleteUserByIdFind(user, id)
    \/ \E p \in PendingOf("deleteUserById") : DeleteUserByIdRemove(p)
    \/ \E user \in Authenticated, id \in SomeIdParams : GetUserById(user, id)

Spec == Init /\ [][Next]_vars

\* The member's profile requests
NextProfile ==
    \/ \E user \in {ReqUser(users, IdOrder[2])} : GetProfile(user)
    \/ \E user \in {ReqUser(users, IdOrder[2])}, body \in ProfileBodies : UpdateProfile(user, body)

SpecProfile == Init /\ [][NextProfile]_vars

\* The member's password changes, its req.user read earlier, beside the
\* admin's deletions, each interleaved with the others at its awaits
NextPassword ==
    \/ \E u \in Ids : Authenticate(u)
    \/ \E user \in {a \in Authenticated : a._id = IdOrder[2]}, body \in PasswordBodies :
          ChangePasswordFind(user, body)
    \/ \E p \in PendingOf("changePassword") : ChangePasswordCheck(p)
    \/ \E p \in PendingOf("changePassword"), now \in Times : ChangePasswordSave(p, now)
    \/ \E user \in Authenticated, id \in {IdParam(h, FALSE) : h \in Ids} : DeleteUserByIdFind(user, id)
    \/ \E p \in PendingOf("deleteUserById") : DeleteUserByIdRemove(p)

SpecPassword == Init /\ [][NextPassword]_vars

\* Invitations by email, beside deactivations
NextEmails ==
    \/ \E user \in Callers, body \in EmailBodies : FindUsersByEmails(user, body)
    \/ \E user \in Callers, now \in Times : DeactivateMe(user, now)

SpecEmails == Init /\ [][NextEmails]_vars

\* Requests of callers authenticated earlier, deleteUserById interleaved
\* with the others between its two queries
NextConc ==
    \/ \E u \in Ids : Authenticate(u)
    \/ \E user \in Authenticated, id \in {IdParam(h, FALSE) : h \in Ids} \cup {IdParam(IdOrder[1], TRUE)},
          body \in {[role |-> ADMIN], [role |-> MEMBER]} : UpdateUserById(user, id, body)
    \/ \E user \in Authenticated, id \in {IdParam(h, FALSE) : h \in Ids} : DeleteUserByIdFind(user, id)
    \/ \E p \in PendingOf("deleteUserById") : DeleteUserByIdRemove(p)
    \/ \E user \in Authenticated, body \in {[fullname |-> "n2"], [role |-> ADMIN, fullname |-> "n2"]} :
          UpdateProfile(user, body)
    \/ \E user \in Authenticated, now \in Times : DeactivateMe(user, now)

SpecConc == Init /\ [][NextConc]_vars

----------------------------------------------------------------------------
\* Properties

Present(db, u) == db[u] # Absent
Gated == {"getAllUsers", "updateUserById", "deleteUserById", "getUserById"}
\* the step is a handler answering a request of one of the operations: no
\* authentication, and no request left pending by it
Answers(ops) == req'.op \in ops /\ auth' = auth /\ pending' \subseteq pending

\* C1: each of getAllUsers, updateUserById, deleteUserById and getUserById,
\* called by a caller whose role is not adminSystem, ends with 403, returns
\* no user data and leaves the collection unchanged.
C1_AdminGated ==
    [][(Answers(Gated) /\ req'.user.role # ADMIN)
          => (res'.status = 403 /\ res'.data = NoData /\ users' = users)]_vars

\* C2: a stored role changes only in an updateUserById request of a caller
\* whose role, the one read when the request was authenticated, is
\* adminSystem; no other request, updateProfile with any body among them,
\* changes any user's role.
C2_RoleChangedByAdminOnly ==
    [][\A u \in Ids :
          (Present(users, u) /\ Present(users', u) /\ users'[u].role # users[u].role)
             => (Answers({"updateUserById"}) /\ req'.user.role = ADMIN)]_vars

\* C2's case: an updateUserById request has set another user's role and been
\* answered 200 while its caller, an admin when the request was
\* authenticated, is stored as a member
C2_Witness ==
    /\ req.op = "updateUserById"
    /\ res.status = 200
    /\ req.user.role = ADMIN
    /\ Present(users, req.user._id)
    /\ users[req.user._id].role = MEMBER
    /\ req.id.hex # req.user._id
    /\ Present(users, req.id.hex)
    /\ req.body.role = MEMBER
    /\ users[req.id.hex].role = MEMBER

\* C3 as stated: an updateProfile request whose body contains a password or a
\* role field is rejected with 400 and the collection is left unchanged.
C3_AnyDisallowedKeyRejected ==
    [][(Answers({"updateProfile"}) /\ (Has(req'.body, "password") \/ Has(req'.body, "role")))
          => (res'.status = 400 /\ users' = users)]_vars

\* C3 amended: an updateProfile request whose body holds a non-empty password
\* or a non-empty role is rejected with 400 and the collection is left
\* unchanged; no updateProfile request changes a stored password or role.
C3_NonEmptyDisallowedKeyRejected ==
    [][Answers({"updateProfile"}) =>
          /\ (TruthyField(req'.body, "password") \/ TruthyField(req'.body, "role"))
                => (res'.status = 400 /\ users' = users)
          /\ \A u \in Ids : Present(users, u) =>
                /\ Present(users', u)
                /\ users'[u].role = users[u].role
                /\ users'[u].password = users[u].password]_vars

\* C3's case: a body with a role and a name was rejected with 400
C3_Witness ==
    /\ req.op = "updateProfile"
    /\ TruthyField(req.body, "role")
    /\ Has(req.body, "fullname")
    /\ res.status = 400
    /\ users[req.user._id].fullname # req.body["fullname"]

\* every stored expectedWorkDuration that has its two dates has startDate <= endDate
DurationsOrdered ==
    \A u \in Ids :
        (/\ Present(users, u)
         /\ users[u].expectedWorkDuration.startDate # NoDate
         /\ users[u].expectedWorkDuration.endDate # NoDate)
            => users[u].expectedWorkDuration.startDate <= users[u].expectedWorkDuration.endDate

\* the body's expectedWorkDuration has two dates, the first after the second
StartsAfterEnd(body) ==
    /\ TruthyValue(body, "expectedWorkDuration")
    /\ body["expectedWorkDuration"].startDate.parses
    /\ body["expectedWorkDuration"].endDate.parses
    /\ body["expectedWorkDuration"].startDate.time > body["expectedWorkDuration"].endDate.time

\* the body's skills is a list holding a value of no Skill document
HasUnknownSkill(body) ==
    /\ Has(body, "skills")
    /\ body["skills"].isArray
    /\ \E i \in 1..Len(body["skills"].items) : body["skills"].items[i] \notin SkillValues

\* C5 as stated: every stored expectedWorkDuration keeps startDate <= endDate,
\* and an updateProfile whose expectedWorkDuration has startDate after endDate
\* is rejected with 400 and writes nothing.
C5_OutOfOrderRejected400 ==
    /\ []DurationsOrdered
    /\ [][(Answers({"updateProfile"}) /\ StartsAfterEnd(req'.body))
             => (res'.status = 400 /\ users' = users)]_vars

\* C5 amended: every stored expectedWorkDuration keeps startDate <= endDate,
\* and an updateProfile whose expectedWorkDuration has startDate after endDate
\* is rejected and writes nothing: with 404 when its skills list holds an
\* unknown value and no earlier check rejects it, with 400 otherwise.
C5_OutOfOrderRejected ==
    /\ []DurationsOrdered
    /\ [][(Answers({"updateProfile"}) /\ StartsAfterEnd(req'.body))
             => /\ users' = users
                /\ res'.status \in {400, 404}
                /\ res'.status = 404 => HasUnknownSkill(req'.body)
                /\ ~HasUnknownSkill(req'.body) => res'.status = 400]_vars

\* C5's case: a duration out of order was what the request was rejected for
C5_Witness ==
    /\ req.op = "updateProfile"
    /\ StartsAfterEnd(req.body)
    /\ res.status = 400
    /\ res.message = <<"Start date must be before or equal to end date.">>

\* the first value of the list, in list order, that no Skill document holds
FirstUnknown(items) ==
    items[CHOOSE i \in 1..Len(items) :
             /\ items[i] \notin SkillValues
             /\ \A j \in 1..(i - 1) : items[j] \in SkillValues]

\* C6 as stated: an updateProfile whose skills list holds an unknown value is
\* rejected with 404, the message naming the first unknown value of the list,
\* and the collection is left unchanged.
C6_UnknownSkillRejected404 ==
    [][(Answers({"updateProfile"}) /\ HasUnknownSkill(req'.body))
          => /\ res'.status = 404
             /\ res'.message = <<"Skill not found: ", FirstUnknown(req'.body["skills"].items)>>
             /\ users' = users]_vars

\* C6 amended: an updateProfile whose skills list holds an unknown value, and
\* whose body holds no non-empty password or role, is rejected with 404, the
\* message naming the first unknown value of the list, and the collection is
\* left unchanged; with a non-empty password or role it is rejected with 400,
\* the collection unchanged as well.
C6_UnknownSkillRejected ==
    [][(Answers({"updateProfile"}) /\ HasUnknownSkill(req'.body))
          => /\ users' = users
             /\ IF TruthyField(req'.body, "password") \/ TruthyField(req'.body, "role")
                THEN res'.status = 400
                ELSE /\ res'.status = 404
                     /\ res'.message =
                           <<"Skill not found: ", FirstUnknown(req'.body["skills"].items)>>]_vars

\* C6's case: of two unknown values the first was named, a name sent beside them not written
C6_Witness ==
    /\ req.op = "updateProfile"
    /\ HasUnknownSkill(req.body)
    /\ Len(req.body["skills"].items) = 2
    /\ req.body["skills"].items[1] \notin SkillValues
    /\ req.body["skills"].items[2] \notin SkillValues
    /\ req.body["skills"].items[1] # req.body["skills"].items[2]
    /\ res.status = 404
    /\ res.message = <<"Skill not found: ", req.body["skills"].items[1]>>
    /\ Has(req.body, "fullname")
    /\ users[req.user._id].fullname # req.body["fullname"]

\* the three fields are present and not empty
AllThree(body) ==
    /\ TruthyField(body, "currentPassword")
    /\ TruthyField(body, "newPassword")
    /\ TruthyField(body, "passwordConfirm")

\* the request may change the password: fields present, user stored,
\* current password the one stored in db, confirmation equal
MayChange(db, request) ==
    /\ AllThree(request.body)
    /\ Present(db, request.user._id)
    /\ db[request.user._id].password = Hash(request.body["currentPassword"])
    /\ request.body["newPassword"] = request.body["passwordConfirm"]

\* C7: a changePassword request changes the stored password and issues a
\* token only when the three fields are present, the current password matches
\* the password stored as the request writes and answers, and the confirmation
\* equals the new password; otherwise it ends in an error (400 for a missing
\* field or a mismatched confirmation, 401 for a wrong current password, 404
\* for a missing user), changes nothing and returns no token.
C7_ChangePassword ==
    [][Answers({"changePassword"}) =>
          /\ (users' # users \/ res'.token # NoToken \/ res'.status = 200)
                => MayChange(users, req')
          /\ ~MayChange(users, req') =>
                /\ users' = users
                /\ res'.token = NoToken
                /\ res'.status \in {400, 401, 404}
                /\ res'.status = 400 =>
                      \/ ~AllThree(req'.body)
                      \/ req'.body["newPassword"] # req'.body["passwordConfirm"]
                /\ res'.status = 401 =>
                      /\ AllThree(req'.body)
                      /\ Present(users, req'.user._id)
                      /\ users[req'.user._id].password # Hash(req'.body["currentPassword"])
                /\ res'.status = 404 => ~Present(users, req'.user._id)
          /\ \A u \in Ids : (Present(users, u) /\ u # req'.user._id) => users'[u] = users[u]]_vars

\* C8: a findUsersByEmails request whose emails list holds the caller's own
\* email is rejected with 400 and returns no foundUsers or notFoundEmails,
\* whatever else the list holds.
C8_SelfInviteRejected ==
    (/\ req.op = "findUsersByEmails"
     /\ Has(req.body, "emails")
     /\ req.body["emails"].isArray
     /\ \E i \in 1..Len(req.body["emails"].items) : req.body["emails"].items[i] = req.user.email)
        => (res.status = 400 /\ res.data = NoData)

\* C8's case: the caller's email beside another user's email, both well formed
C8_Witness ==
    /\ req.op = "findUsersByEmails"
    /\ Has(req.body, "emails")
    /\ req.body["emails"].isArray
    /\ Len(req.body["emails"].items) = 2
    /\ req.body["emails"].items[2] = req.user.email
    /\ req.body["emails"].items[1] \in {E1, E2} \ {req.user.email}
    /\ res.status = 400
    /\ res.message = <<"You cannot invite yourself.">>

\* no step removes a document whose role is adminSystem
NoAdminRemoved ==
    \A u \in Ids : (Present(users, u) /\ users[u].role = ADMIN) => Present(users', u)

\* C4: a deleteUserById request of an admin whose target has role adminSystem
\* as the request is answered is rejected with 400 and the target stays in
\* the collection; and no step removes a document whose role is adminSystem
\* but the removal of a deleteUserById whose target's role is no more the one
\* its findById read, which requests run one at a time never meet.
C4_AdminNotDeleted ==
    [][/\ (/\ Answers({"deleteUserById"})
           /\ req'.user.role = ADMIN
           /\ IsValid(req'.id)
           /\ req'.id.hex \in Ids
           /\ Present(users, req'.id.hex)
           /\ users[req'.id.hex].role = ADMIN)
              => (res'.status = 400 /\ users' = users)
       /\ \/ NoAdminRemoved
          \/ \E p \in PendingOf("deleteUserById") :
                /\ pending' = pending \ {p}
                /\ Present(users, p.id.hex)
                /\ users[p.id.hex].role # p.role]_vars

\* C9: under any interleaving of admin requests, deleteUserById removes no
\* document whose role is adminSystem at the moment of the removal.
C9_DeleteAtomic ==
    [][\A p \in PendingOf("deleteUserById") :
          (pending' = pending \ {p} /\ Present(users, p.id.hex) /\ ~Present(users', p.id.hex))
             => users[p.id.hex].role # ADMIN]_vars

\* C10: a collection that starts with a document of role adminSystem keeps
\* one, whatever updateUserById, deleteUserById, updateProfile and
\* deactivateMe requests run, in whatever interleaving.
C10_AdminRemains ==
    \E u \in Ids : Present(users, u) /\ users[u].role = ADMIN

====
